---- MODULE Spec2Model ----
(***************************************************************************)
(* PrSolver::solve (src/src/Solver.cc): the tournament heuristic for the   *)
(* RCPSP/t.  One behaviour is one call of solve on one Problem: the        *)
(* earliest-finish pass, the latest-start pass, the resource-utilisation   *)
(* pass, the CPRU priorities and the tournament passes.                    *)
(*                                                                         *)
(* Arrays are functions over 0..n-1, as in the source.  A double is a      *)
(* triple <<kind, n, d>>: a rational n/d, an infinity, NaN, or the content *)
(* of memory that was never written ("uninit").  Rounding and signed       *)
(* zeros are not modelled.                                                 *)
(***************************************************************************)
EXTENDS Integers, Sequences, FiniteSets, TLC

\* ---- bounds of the model ------------------------------------------------
NPASSES == 2        \* tournament passes run here (the source runs 1000)
DrawGrid == 3       \* a draw of distribution(eng) is one of 0/DrawGrid .. (DrawGrid-1)/DrawGrid
MaxDur == 2         \* longest duration of an enumerated interior activity
MaxReq == 2         \* largest per-period request of an enumerated activity
MaxFiles == 101     \* most instance files a batch run discovers

\* ---- program constants --------------------------------------------------
INT32_MAX == 2147483647
PERCENT == 100      \* the divisor of paths.size() in the progress report

VARIABLES
    problem,        \* the Problem solve reads (immutable)
    pc,             \* phase: "EF","LS","RU","CPRU","Passes","Done","Infeasible","Crash"
    q,              \* std::queue<int> q
    ef, ls,         \* int* ef, int* ls
    ru, cpru,       \* double* ru, double* cpru
    available,      \* int** available
    schedule,       \* int* schedule
    bestMakespan,   \* int bestMakespan
    out,            \* the caller's buffer int* out
    pass, i,        \* loop counters of lines 187 and 199 (i = 0: at the head of the pass loop)
    selected,       \* int* selected, as filled by the last iteration
    winner, finish, \* int winner, int finish of the last iteration
    ret,            \* "running", "Found" (true) or "NoSolution" (false)
    oob,            \* some capacities/available index so far was outside [0, horizon)
    uninit,         \* some ru entry so far was read before it was written
    passLog,        \* history: the schedule of every pass completed so far
    twin,           \* a second invocation on the same Problem (specification SpecTwin)
    batch           \* findInstancesAndSolveAll (specification SpecBatch)

vars == <<problem, pc, q, ef, ls, ru, cpru, available, schedule, bestMakespan,
          out, pass, i, selected, winner, finish, ret, oob, uninit, passLog, twin, batch>>

\* ---- helpers --------------------------------------------------------------
Arr(s) == [x \in 0..(Len(s) - 1) |-> s[x + 1]]

\* variants (faulty): an update that always, or never, takes the new value
KeepNew(a, b) == b

KeepOld(a, b) == a

Max2(a, b) == IF a > b THEN a ELSE b

Min2(a, b) == IF a < b THEN a ELSE b

Abs(a) == IF a < 0 THEN -a ELSE a

RECURSIVE GCD(_, _)
GCD(a, b) == IF b = 0 THEN a ELSE GCD(b, a % b)

RECURSIVE SumFn(_, _)
SumFn(f, S) == IF S = {} THEN 0
               ELSE LET x == CHOOSE y \in S : TRUE IN f[x] + SumFn(f, S \ {x})

\* ---- doubles --------------------------------------------------------------
NaN == <<"nan", 0, 1>>
PInf == <<"inf", 1, 1>>
NInf == <<"inf", -1, 1>>
Uninit == <<"uninit", 0, 1>>
Lowest == <<"lowest", 0, 1>>    \* -std::numeric_limits<double>::max()/2.0

Fin(n, d) == LET s == IF d < 0 THEN -1 ELSE 1
                 g == GCD(Abs(n), Abs(d))
             IN <<"fin", (s * n) \div g, (s * d) \div g>>

DZero == Fin(0, 1)

IsNaN(a) == a[1] = "nan"

Sgn(a) == IF a[2] > 0 THEN 1 ELSE IF a[2] < 0 THEN -1 ELSE 0

\* (double) x / (double) y
DDiv(x, y) == IF y = 0
              THEN (IF x = 0 THEN NaN ELSE IF x > 0 THEN PInf ELSE NInf)
              ELSE Fin(x, y)

DMul(a, b) == IF IsNaN(a) \/ IsNaN(b) THEN NaN
              ELSE IF a[1] = "inf" \/ b[1] = "inf"
                   THEN (IF Sgn(a) * Sgn(b) = 0 THEN NaN
                         ELSE IF Sgn(a) * Sgn(b) > 0 THEN PInf ELSE NInf)
              ELSE Fin(a[2] * b[2], a[3] * b[3])

DAdd(a, b) == IF IsNaN(a) \/ IsNaN(b) THEN NaN
              ELSE IF a[1] = "inf" /\ b[1] = "inf" THEN (IF a = b THEN a ELSE NaN)
              ELSE IF a[1] = "inf" THEN a
              ELSE IF b[1] = "inf" THEN b
              ELSE Fin(a[2] * b[3] + b[2] * a[3], a[3] * b[3])

\* a < b
DLess(a, b) == IF IsNaN(a) \/ IsNaN(b) THEN FALSE
               ELSE IF a[1] = "lowest" THEN b # Lowest /\ b # NInf
               ELSE IF b[1] = "lowest" THEN a = NInf
               ELSE IF a[1] = "inf" THEN a = NInf /\ b # NInf
               ELSE IF b[1] = "inf" THEN b = PInf
               ELSE a[2] * b[3] < b[2] * a[3]

\* a >= b
DGeq(a, b) == IF IsNaN(a) \/ IsNaN(b) THEN FALSE ELSE ~DLess(a, b)

OMEGA1 == Fin(2, 5)
OMEGA2 == Fin(3, 5)

\* what a read of never-written double memory may yield
GarbageDoubles == {DZero, NaN, PInf}

\* what a read outside an int array may yield
GarbageInts == {-1, MaxReq}

\* the values to try for such reads in a step: one is enough when none happens
GarbageIf(needed) == IF needed THEN GarbageInts ELSE {0}

\* ---- the Problem ----------------------------------------------------------
\* Problem::Problem allocates the arrays that the instance reader fills.  dur,
\* succ and req are given per job, cap per period; every resource has the same
\* request profile and the same capacity row.
IdSeq(n) == [x \in 1..n |-> x - 1]

InSeq(x, s) == \E y \in 1..Len(s) : s[y] = x

MkProblem(nres, dur, succ, req, cap) ==
    LET n == Len(dur) IN
    [ njobs        |-> n,
      horizon      |-> Len(cap),
      nresources   |-> nres,
      nsuccessors  |-> [j \in 0..(n - 1) |-> Len(succ[j + 1])],
      successors   |-> [j \in 0..(n - 1) |-> Arr(succ[j + 1])],
      predecessors |-> [j \in 0..(n - 1) |->
                           SelectSeq(IdSeq(n), LAMBDA p : InSeq(j, succ[p + 1]))],
      durations    |-> Arr(dur),
      requests     |-> [j \in 0..(n - 1) |-> [k \in 0..(nres - 1) |-> Arr(req[j + 1])]],
      capacities   |-> [k \in 0..(nres - 1) |-> Arr(cap)] ]

\* a constant request profile of level c over d periods
Flat(d, c) == [t \in 1..d |-> c]

Chain3 == << <<1>>, <<2>>, <<>> >>
Chain4 == << <<1>>, <<2>>, <<3>>, <<>> >>
Diamond == << <<1, 2>>, <<3>>, <<3>>, <<>> >>
Funnel == << <<1, 2>>, <<3>>, <<3>>, <<4>>, <<>> >>
NGraph == << <<1, 2>>, <<3>>, <<3, 4>>, <<4>>, <<>> >>

CapProfiles == { <<1, 1, 1, 1>>, <<2, 1, 1, 2>>, <<2, 1, 1>>, <<0, 1, 1, 0>> }

\* diamonds 0 -> {1, 2} -> 3 with one resource
DiamondFamily ==
    { MkProblem(1, <<0, d1, d2, 0>>, Diamond,
                << <<>>, Flat(d1, r1), Flat(d2, r2), <<>> >>, cap) :
        d1 \in 1..MaxDur, d2 \in 1..MaxDur, r1 \in {1}, r2 \in 1..MaxReq,
        cap \in CapProfiles }

\* chains 0 -> 1 -> 2 with one resource
ChainFamily ==
    { MkProblem(1, <<0, d1, 0>>, Chain3, << <<>>, Flat(d1, r1), <<>> >>, cap) :
        d1 \in 1..MaxDur, r1 \in 1..MaxReq, cap \in CapProfiles }

\* instances without resources; only the length of cap (the horizon) matters
NoResourceFamily ==
    { MkProblem(0, <<0, d1, d2, 0>>, g, << <<>>, <<>>, <<>>, <<>> >>, Flat(h, 0)) :
        d1 \in 1..MaxDur, d2 \in 1..MaxDur, g \in {Chain4, Diamond}, h \in 2..4 }

NamedProblems ==
    { \* no resources, chain, durations [0,5,0]
      MkProblem(0, <<0, 5, 0>>, Chain3, << <<>>, <<>>, <<>> >>, Flat(5, 0)),
      \* diamond, durations 3, unit capacity, horizon 6
      MkProblem(1, <<0, 3, 3, 0>>, Diamond,
                << <<>>, Flat(3, 1), Flat(3, 1), <<>> >>, Flat(6, 1)),
      \* time-varying capacity, horizon 4 and horizon 2
      MkProblem(1, <<0, 2, 0>>, Chain3, << <<>>, Flat(2, 1), <<>> >>, <<0, 1, 1, 0>>),
      MkProblem(1, <<0, 2, 0>>, Chain3, << <<>>, Flat(2, 1), <<>> >>, <<0, 1>>),
      \* chains of four, the second too long for the horizon
      MkProblem(1, <<0, 2, 2, 0>>, Chain4,
                << <<>>, Flat(2, 1), Flat(2, 1), <<>> >>, <<1, 1, 1, 1>>),
      MkProblem(1, <<0, 2, 2, 0>>, Chain4,
                << <<>>, Flat(2, 1), Flat(2, 1), <<>> >>, <<1, 1, 1>>),
      \* a time-varying request, two resources
      MkProblem(2, <<0, 2, 1, 0>>, Diamond,
                << <<>>, <<2, 1>>, <<1>>, <<>> >>, <<2, 2, 1, 1>>),
      \* an interior activity of duration 0
      MkProblem(1, <<0, 0, 0>>, Chain3, << <<>>, <<>>, <<>> >>, <<1, 1>>),
      \* activities 1 and 2 share one unit, activity 3 follows both
      MkProblem(1, <<0, 1, 1, 2, 0>>, Funnel,
                << <<>>, <<1>>, <<1>>, <<1, 1>>, <<>> >>, <<1, 1, 1>>),
      \* five activities, activity 2 has two successors
      MkProblem(1, <<0, 1, 1, 1, 0>>, NGraph,
                << <<>>, <<1>>, <<1>>, <<1>>, <<>> >>, <<1, 2, 1, 1>>) }

Problems == DiamondFamily \cup ChainFamily \cup NoResourceFamily \cup NamedProblems

Jobs == 0..(problem.njobs - 1)

Sink == problem.njobs - 1

\* ---- reads of capacities / available ---------------------------------------
InHorizon(t) == t >= 0 /\ t < problem.horizon

\* grid[k][t]; g is what the read yields when t is outside the row
GridAt(grid, k, t, g) == IF InHorizon(t) THEN grid[k][t] ELSE g

\* One sweep of the nested for loops of a feasibility check (lines 69-76, 110-117,
\* 238-245) for job at start time base: k ascending, t descending when down and
\* ascending otherwise, left at the first request that exceeds the grid.
Sweep(job, base, grid, g, down) ==
    LET dur == problem.durations[job]
        pairs == (0..(problem.nresources - 1)) \X (0..(dur - 1))
        Pos(p) == p[1] * dur + (IF down THEN dur - 1 - p[2] ELSE p[2])
        Bad(p) == problem.requests[job][p[1]][p[2]] > GridAt(grid, p[1], base + p[2], g)
        viol == \E p \in pairs : Bad(p)
        first == IF viol
                 THEN CHOOSE x \in 0..(dur * problem.nresources) :
                          /\ \E p \in pairs : Bad(p) /\ Pos(p) = x
                          /\ \A p \in pairs : Bad(p) => Pos(p) >= x
                 ELSE dur * problem.nresources
    IN [ viol |-> viol,
         oob  |-> \E p \in pairs : Pos(p) <= first /\ ~InHorizon(base + p[2]) ]

\* variant (faulty): the abort check of lines 78 and 247 one period late
RECURSIVE FinishAdvanceLate(_, _, _, _)
FinishAdvanceLate(job, f, grid, g) ==
    LET s == Sweep(job, f - problem.durations[job], grid, g, TRUE)
        f1 == IF s.viol THEN f + 1 ELSE f
    IN IF f1 > problem.horizon + 1 THEN [f |-> f1, abort |-> TRUE, oob |-> s.oob]
       ELSE IF ~s.viol THEN [f |-> f1, abort |-> FALSE, oob |-> s.oob]
       ELSE LET r == FinishAdvanceLate(job, f1, grid, g)
            IN [r EXCEPT !.oob = r.oob \/ s.oob]

\* variant (faulty): a violation moves the finish time two periods
RECURSIVE FinishAdvanceByTwo(_, _, _, _)
FinishAdvanceByTwo(job, f, grid, g) ==
    LET s == Sweep(job, f - problem.durations[job], grid, g, TRUE)
        f1 == IF s.viol THEN f + 2 ELSE f
    IN IF f1 > problem.horizon THEN [f |-> f1, abort |-> TRUE, oob |-> s.oob]
       ELSE IF ~s.viol THEN [f |-> f1, abort |-> FALSE, oob |-> s.oob]
       ELSE LET r == FinishAdvanceByTwo(job, f1, grid, g)
            IN [r EXCEPT !.oob = r.oob \/ s.oob]

\* while (!feasibleFinal) of lines 66-82 and 235-259: the finish time moves right
\* until a sweep finds no violation; abort when it has passed the horizon
RECURSIVE FinishAdvance(_, _, _, _)
FinishAdvance(job, f, grid, g) ==
    LET s == Sweep(job, f - problem.durations[job], grid, g, TRUE)
        f1 == IF s.viol THEN f + 1 ELSE f
    IN IF f1 > problem.horizon THEN [f |-> f1, abort |-> TRUE, oob |-> s.oob]
       ELSE IF ~s.viol THEN [f |-> f1, abort |-> FALSE, oob |-> s.oob]
       ELSE LET r == FinishAdvance(job, f1, grid, g)
            IN [r EXCEPT !.oob = r.oob \/ s.oob]

\* while (!feasibleFinal) of lines 107-124: the start time moves left
RECURSIVE StartAdvance(_, _, _)
StartAdvance(job, l, g) ==
    LET s == Sweep(job, l, problem.capacities, g, FALSE)
        l1 == IF s.viol THEN l - 1 ELSE l
    IN IF l1 < 0 THEN [l |-> l1, abort |-> TRUE, oob |-> s.oob]
       ELSE IF ~s.viol THEN [l |-> l1, abort |-> FALSE, oob |-> s.oob]
       ELSE LET r == StartAdvance(job, l1, g)
            IN [r EXCEPT !.oob = r.oob \/ s.oob]

\* some period of [start, start + durations[job]) lies outside the horizon
LeavesGrid(job, start) ==
    /\ problem.nresources > 0
    /\ problem.durations[job] > 0
    /\ (start < 0 \/ start + problem.durations[job] > problem.horizon)

SuccSet(job) == {problem.successors[job][x] : x \in 0..(problem.nsuccessors[job] - 1)}

SuccSeq(job) == [x \in 1..problem.nsuccessors[job] |-> problem.successors[job][x - 1]]

PredSet(job) == {problem.predecessors[job][x] : x \in 1..Len(problem.predecessors[job])}

\* ---- lines 141-164: one evaluation of ru[job] -----------------------------
\* variant (the repair): the ids of the successors
RUReadSuccessor(job, x) == problem.successors[job][x]

\* the indices the loop of line 157 reads: 0 .. nsuccessors[job]-1
RUReadIndex(job, x) == x

RECURSIVE RUAcc(_, _, _, _)
RUAcc(arr, job, x, n) ==
    IF x >= n THEN arr
    ELSE RUAcc([arr EXCEPT ![job] = DAdd(arr[job], DMul(OMEGA2, arr[RUReadIndex(job, x)]))],
               job, x + 1, n)

\* the entries the loop of line 157 reads that no iteration has written yet
\* (ru[job] itself was written by line 155)
RUFresh(job, ruArr) ==
    {j \in Jobs : /\ ruArr[j] = Uninit
                  /\ j # job
                  /\ \E x \in 0..(problem.nsuccessors[job] - 1) : RUReadIndex(job, x) = j}

RUClamp(v) == IF IsNaN(v) \/ DLess(v, DZero) THEN DZero ELSE v

\* gm[j] is what never-written ru[j] holds; g what a capacity read outside the
\* horizon yields
RUEval(job, ruArr, gm, g) ==
    LET dur == problem.durations[job]
        nsucc == problem.nsuccessors[job]
        K == 0..(problem.nresources - 1)
        demand == SumFn([p \in K \X (0..(dur - 1)) |-> problem.requests[job][p[1]][p[2]]],
                        K \X (0..(dur - 1)))
        window == (ef[job] - dur)..(ls[job] + dur - 1)
        availability == SumFn([p \in K \X window |-> GridAt(problem.capacities, p[1], p[2], g)],
                              K \X window)
        base == DMul(OMEGA1, DMul(DDiv(nsucc, problem.nresources), DDiv(demand, availability)))
        fresh == RUFresh(job, ruArr)
        revealed == [j \in Jobs |-> IF j \in fresh THEN gm[j] ELSE ruArr[j]]
        acc == RUAcc([revealed EXCEPT ![job] = base], job, 0, nsucc)
    IN [ ru     |-> [acc EXCEPT ![job] = RUClamp(acc[job])],
         fresh  |-> fresh,
         oob    |-> \E p \in K \X window : ~InHorizon(p[2]) ]

\* lines 167-171
CPRUOf(ruArr) == [job \in Jobs |-> DMul(Fin(problem.horizon - ls[job], 1), ruArr[job])]

\* ---- lines 199-267: one iteration of the scheduling loop -------------------
\* variant (faulty): the predecessors are not looked at
EligibleAnyOrder(sched) ==
    SelectSeq([x \in 1..(problem.njobs - 1) |-> x], LAMBDA j : sched[j] < 0)

\* lines 201-209, in ascending order of j
Eligible(sched) ==
    SelectSeq([x \in 1..(problem.njobs - 1) |-> x],
              LAMBDA j : sched[j] < 0 /\ \A p \in PredSet(j) : sched[p] >= 0)

\* line 210
TournamentSize(neligible) == Max2(neligible \div 2, 2)

\* lines 212-215; d[j] / DrawGrid is the j-th value of distribution(eng)
Selected(elig, d) ==
    [j \in 1..TournamentSize(Len(elig)) |-> elig[((d[j] * Len(elig)) \div DrawGrid) + 1]]

\* line 222
Beats(x, best) == DGeq(x, best)

\* lines 218-226
RECURSIVE WinScan(_, _, _, _, _)
WinScan(sel, cpruArr, j, bestPriority, w) ==
    IF j > Len(sel) THEN w
    ELSE IF Beats(cpruArr[sel[j]], bestPriority)
         THEN WinScan(sel, cpruArr, j + 1, cpruArr[sel[j]], sel[j])
         ELSE WinScan(sel, cpruArr, j + 1, bestPriority, w)

\* variant (faulty): only the first predecessor counts
Finish0FirstOnly(sched, w, x, f) ==
    sched[problem.predecessors[w][1]] + problem.durations[w]

\* variant (faulty): only the last predecessor counts
Finish0LastOnly(sched, w, x, f) ==
    sched[problem.predecessors[w][Len(problem.predecessors[w])]] + problem.durations[w]

\* lines 229-233
RECURSIVE Finish0(_, _, _, _)
Finish0(sched, w, x, f) ==
    IF x > Len(problem.predecessors[w]) THEN f
    ELSE Finish0(sched, w, x + 1,
                 Max2(f, sched[problem.predecessors[w][x]] + problem.durations[w]))

\* variant (faulty): the requests are not taken off the remaining availabilities
CommitNothing(avail, w, f) == avail

\* lines 263-266
Commit(avail, w, f) ==
    LET start == f - problem.durations[w] IN
    [k \in 0..(problem.nresources - 1) |->
        [t \in 0..(problem.horizon - 1) |->
            IF t >= start /\ t < f
            THEN avail[k][t] - problem.requests[w][k][t - start]
            ELSE avail[k][t]]]

\* the first sweep of some eligible activity's placement reads outside the grid
PlacementLeavesGrid(sched) ==
    \E x \in 1..Len(Eligible(sched)) :
        LET w == Eligible(sched)[x]
        IN LeavesGrid(w, Finish0(sched, w, 1, -1) - problem.durations[w])

\* The whole iteration.  kind is "commit", "abort" (return false, line 257) or
\* "crash": no sample beat bestPriority, winner stays -1 and line 230 indexes
\* predecessors[-1]; the call does not return.
TournamentIter(sched, avail, cpruArr, d, g) ==
    LET elig == Eligible(sched)
        sel == IF Len(elig) = 0 THEN <<>> ELSE Selected(elig, d)
        w == WinScan(sel, cpruArr, 1, Lowest, -1)
    IN IF w = -1
       THEN [kind |-> "crash", selected |-> sel, winner |-> w, finish |-> -1,
             schedule |-> sched, available |-> avail, oob |-> FALSE]
       ELSE LET r == FinishAdvance(w, Finish0(sched, w, 1, -1), avail, g)
            IN IF r.abort
               THEN [kind |-> "abort", selected |-> sel, winner |-> w, finish |-> r.f,
                     schedule |-> sched, available |-> avail, oob |-> r.oob]
               ELSE [kind |-> "commit", selected |-> sel, winner |-> w, finish |-> r.f,
                     schedule |-> [sched EXCEPT ![w] = r.f],
                     available |-> Commit(avail, w, r.f), oob |-> r.oob]

\* variant (faulty): a pass that cannot place its winner does not end the call
AfterIterForgiving(kind) == IF kind = "crash" THEN "Crash" ELSE "Passes"

\* lines 247-258: where the call goes after an iteration
AfterIter(kind) == IF kind = "commit" THEN "Passes"
                   ELSE IF kind = "abort" THEN "Infeasible" ELSE "Crash"

\* variant (faulty): the remaining availabilities are set up once, before the first pass
ResetAvailableOnce(avail) == IF avail = <<>> THEN problem.capacities ELSE avail

\* lines 190-193
ResetAvailable(avail) == problem.capacities

\* lines 188, 196
FreshSchedule == [j \in Jobs |-> IF j = 0 THEN 0 ELSE -1]

\* variant (faulty): the copy starts at index 1
CopyOutFromOne(sched, old) == [j \in Jobs |-> IF j = 0 THEN old[j] ELSE sched[j]]

\* line 271
CopyOut(sched, old) == [j \in Jobs |-> sched[j]]

\* variants (faulty): <= for <, and no comparison at all
ImprovesOrTies(makespan, best) == makespan <= best

ImprovesAlways(makespan, best) == TRUE

\* line 269
Improves(makespan, best) == makespan < best

\* variant (faulty): < for <=
ReturnValueStrict(best) == IF best < problem.horizon THEN "Found" ELSE "NoSolution"

\* line 284
ReturnValue(best) == IF best <= problem.horizon THEN "Found" ELSE "NoSolution"

\* the out buffer before solve writes it
Unwritten == [j \in Jobs |-> -1]

\* ---- the call ---------------------------------------------------------------
\* the state of the second invocation from the resource-utilisation pass on
TwinInit == [ pc |-> "Pre", ru |-> <<>>, cpru |-> <<>>, schedule |-> <<>>,
              available |-> <<>>, bestMakespan |-> INT32_MAX \div 2, out |-> <<>>,
              pass |-> 0, i |-> 0, ret |-> "running" ]

\* no batch run: solve was called for a single instance
NoBatch == [ pc |-> "None", npaths |-> 0, i |-> 0, blocks |-> 0, last |-> "none",
             percent |-> -1 ]

\* lines 51-58 (arrays not yet allocated are <<>>)
Init ==
    /\ problem \in Problems
    /\ pc = "EF"
    /\ q = <<0>>
    /\ ef = [j \in Jobs |-> 0]
    /\ ls = <<>>
    /\ ru = <<>>
    /\ cpru = <<>>
    /\ available = <<>>
    /\ schedule = <<>>
    /\ bestMakespan = INT32_MAX \div 2
    /\ out = Unwritten
    /\ pass = 0
    /\ i = 0
    /\ selected = <<>>
    /\ winner = -1
    /\ finish = -1
    /\ passLog = <<>>
    /\ ret = "running"
    /\ oob = FALSE
    /\ uninit = FALSE
    /\ twin = TwinInit
    /\ batch = NoBatch

passVars == <<available, schedule, bestMakespan, out, pass, i, selected, winner, finish, passLog>>

\* lines 60-91: one iteration of the earliest-finish loop
EFStep ==
    /\ pc = "EF"
    /\ q # <<>>
    /\ \E g \in GarbageIf(LeavesGrid(Head(q), ef[Head(q)] - problem.durations[Head(q)])) :
        LET job == Head(q)
            r == FinishAdvance(job, ef[job], problem.capacities, g)
        IN /\ oob' = (oob \/ r.oob)
           /\ IF r.abort
              THEN /\ ef' = [ef EXCEPT ![job] = r.f]
                   /\ q' = Tail(q)
                   /\ pc' = "Infeasible"
                   /\ ret' = "NoSolution"
              ELSE /\ ef' = [j \in Jobs |->
                                IF j = job THEN r.f
                                ELSE IF j \in SuccSet(job)
                                     THEN Max2(ef[j], r.f + problem.durations[j])
                                     ELSE ef[j]]
                   /\ q' = Tail(q) \o SuccSeq(job)
                   /\ UNCHANGED <<pc, ret>>
    /\ UNCHANGED <<batch, problem, ls, ru, cpru, passVars, uninit, twin>>

\* lines 95-99
EFDone ==
    /\ pc = "EF"
    /\ q = <<>>
    /\ ls' = [j \in Jobs |-> problem.horizon]
    /\ q' = <<Sink>>
    /\ pc' = "LS"
    /\ UNCHANGED <<batch, problem, ef, ru, cpru, passVars, ret, oob, uninit, twin>>

\* lines 101-132: one iteration of the latest-start loop
LSStep ==
    /\ pc = "LS"
    /\ q # <<>>
    /\ \E g \in GarbageIf(LeavesGrid(Head(q), ls[Head(q)])) :
        LET job == Head(q)
            r == StartAdvance(job, ls[job], g)
        IN /\ oob' = (oob \/ r.oob)
           /\ IF r.abort
              THEN /\ ls' = [ls EXCEPT ![job] = r.l]
                   /\ q' = Tail(q)
                   /\ pc' = "Infeasible"
                   /\ ret' = "NoSolution"
              ELSE /\ ls' = [j \in Jobs |->
                                IF j = job THEN r.l
                                ELSE IF j \in PredSet(job)
                                     THEN Min2(ls[j], r.l - problem.durations[j])
                                     ELSE ls[j]]
                   /\ q' = Tail(q) \o problem.predecessors[job]
                   /\ UNCHANGED <<pc, ret>>
    /\ UNCHANGED <<batch, problem, ef, ru, cpru, passVars, uninit, twin>>

\* lines 136-139
LSDoneBody ==
    /\ pc = "LS"
    /\ q = <<>>
    /\ ru' = [j \in Jobs |-> Uninit]
    /\ q' = <<Sink>>
    /\ pc' = "RU"
    /\ UNCHANGED <<batch, problem, ef, ls, cpru, passVars, ret, oob, uninit>>

LSDone == LSDoneBody /\ UNCHANGED twin

\* the contents gm may give to the entries job reads before they were written
Reveals(job, ruArr) ==
    {[j \in Jobs |-> IF j \in RUFresh(job, ruArr) THEN h[j] ELSE DZero] :
        h \in [RUFresh(job, ruArr) -> GarbageDoubles]}

\* lines 141-164: one iteration of the resource-utilisation loop
RUStepBody(gm, g) ==
    /\ pc = "RU"
    /\ q # <<>>
    /\ LET job == Head(q)
           r == RUEval(job, ru, gm, g)
       IN /\ ru' = r.ru
          /\ uninit' = (uninit \/ r.fresh # {})
          /\ oob' = (oob \/ r.oob)
          /\ q' = Tail(q) \o problem.predecessors[job]
    /\ UNCHANGED <<batch, problem, pc, ef, ls, cpru, passVars, ret>>

RUStep ==
    /\ pc = "RU" /\ q # <<>>
    /\ \E g \in GarbageIf(RUEval(Head(q), ru, [x \in Jobs |-> DZero], 0).oob) :
         \E gm \in Reveals(Head(q), ru) : RUStepBody(gm, g)
    /\ UNCHANGED twin

RUDone ==
    /\ pc = "RU"
    /\ q = <<>>
    /\ pc' = "CPRU"
    /\ UNCHANGED <<batch, problem, q, ef, ls, ru, cpru, passVars, ret, oob, uninit, twin>>

\* lines 167-186
CPRUBody ==
    /\ pc = "CPRU"
    /\ cpru' = CPRUOf(ru)
    /\ bestMakespan' = INT32_MAX \div 2
    /\ pass' = 0
    /\ i' = 0
    /\ pc' = "Passes"
    /\ UNCHANGED <<batch, problem, q, ef, ls, ru, available, schedule, out, selected, winner,
                   finish, passLog, ret, oob, uninit>>

CPRUStep == CPRUBody /\ UNCHANGED twin

\* lines 187-196: the head of a pass
PassBeginBody ==
    /\ pc = "Passes"
    /\ i = 0
    /\ pass < NPASSES
    /\ schedule' = FreshSchedule
    /\ available' = ResetAvailable(available)
    /\ i' = 1
    /\ UNCHANGED <<batch, problem, pc, q, ef, ls, ru, cpru, bestMakespan, out, pass, selected,
                   winner, finish, passLog, ret, oob, uninit>>

PassBegin == PassBeginBody /\ UNCHANGED twin

\* lines 199-267: one iteration of the scheduling loop
ScheduleBody(d, g) ==
    /\ pc = "Passes"
    /\ i >= 1
    /\ i < problem.njobs
    /\ LET r == TournamentIter(schedule, available, cpru, d, g)
       IN /\ schedule' = r.schedule
          /\ available' = r.available
          /\ selected' = r.selected
          /\ winner' = r.winner
          /\ finish' = r.finish
          /\ oob' = (oob \/ r.oob)
          /\ i' = IF r.kind = "commit" THEN i + 1 ELSE i
          /\ pc' = AfterIter(r.kind)
          /\ ret' = IF AfterIter(r.kind) = "Infeasible" THEN "NoSolution" ELSE ret
    /\ UNCHANGED <<batch, problem, q, ef, ls, ru, cpru, bestMakespan, out, pass, passLog, uninit>>

Schedule ==
    /\ pc = "Passes" /\ i >= 1 /\ i < problem.njobs
    /\ \E d \in [1..TournamentSize(Len(Eligible(schedule))) -> 0..(DrawGrid - 1)] :
         \E g \in GarbageIf(PlacementLeavesGrid(schedule)) : ScheduleBody(d, g)
    /\ UNCHANGED twin

\* lines 269-273: the end of a pass
PassEndBody ==
    /\ pc = "Passes"
    /\ i = problem.njobs
    /\ IF Improves(schedule[Sink], bestMakespan)
       THEN /\ bestMakespan' = schedule[Sink]
            /\ out' = CopyOut(schedule, out)
       ELSE UNCHANGED <<bestMakespan, out>>
    /\ pass' = pass + 1
    /\ i' = 0
    /\ passLog' = Append(passLog, schedule)
    /\ UNCHANGED <<batch, problem, pc, q, ef, ls, ru, cpru, available, schedule, selected, winner,
                   finish, ret, oob, uninit>>

PassEnd == PassEndBody /\ UNCHANGED twin

\* lines 275-284
ReturnBody ==
    /\ pc = "Passes"
    /\ i = 0
    /\ pass >= NPASSES
    /\ pc' = "Done"
    /\ ret' = ReturnValue(bestMakespan)
    /\ UNCHANGED <<batch, problem, q, ef, ls, ru, cpru, passVars, oob, uninit>>

Return == ReturnBody /\ UNCHANGED twin

Next ==
    \/ EFStep
    \/ EFDone
    \/ LSStep
    \/ LSDone
    \/ RUStep
    \/ RUDone
    \/ CPRUStep
    \/ PassBegin
    \/ Schedule
    \/ PassEnd
    \/ Return

Spec == Init /\ [][Next]_vars

\* the call has returned, or has left the program (see TournamentIter)
Stopped == pc \in {"Done", "Infeasible", "Crash"}

\* solve is sequential code: as long as a step is possible, one is taken.  This is
\* weak fairness of Next, written with the condition under which Next is enabled
\* (every phase but the three of Stopped has a step) in place of ENABLED.
SpecLive == Init /\ [][Next]_vars /\ ([]<>Stopped \/ []<><<Next>>_vars)

\* ---- two invocations on the same Problem with the same draws ----------------
\* The second invocation computes the same ef and ls (they depend on the Problem
\* alone), so it is modelled from the allocation of ru on; its ru memory holds
\* contents of its own.
TwinStep(tw, d, g) ==
    IF tw.pc # "Passes" THEN tw
    ELSE IF tw.i = 0
         THEN (IF tw.pass < NPASSES
               THEN [tw EXCEPT !.schedule = FreshSchedule,
                               !.available = ResetAvailable(tw.available), !.i = 1]
               ELSE [tw EXCEPT !.pc = "Done", !.ret = ReturnValue(tw.bestMakespan)])
    ELSE IF tw.i < problem.njobs
         THEN LET r == TournamentIter(tw.schedule, tw.available, tw.cpru, d, g)
              IN [tw EXCEPT !.schedule = r.schedule,
                            !.available = r.available,
                            !.i = IF r.kind = "commit" THEN tw.i + 1 ELSE tw.i,
                            !.pc = AfterIter(r.kind),
                            !.ret = IF AfterIter(r.kind) = "Infeasible"
                                    THEN "NoSolution" ELSE tw.ret]
    ELSE IF Improves(tw.schedule[Sink], tw.bestMakespan)
         THEN [tw EXCEPT !.bestMakespan = tw.schedule[Sink],
                         !.out = CopyOut(tw.schedule, tw.out),
                         !.pass = tw.pass + 1, !.i = 0]
         ELSE [tw EXCEPT !.pass = tw.pass + 1, !.i = 0]

LSDone2 == LSDoneBody /\ twin' = [twin EXCEPT !.ru = [j \in Jobs |-> Uninit], !.out = Unwritten]

RUStep2 ==
    /\ pc = "RU" /\ q # <<>>
    /\ \E g \in GarbageIf(RUEval(Head(q), ru, [x \in Jobs |-> DZero], 0).oob) :
         \E gm \in Reveals(Head(q), ru) : \E gm2 \in Reveals(Head(q), twin.ru) :
            /\ RUStepBody(gm, g)
            /\ twin' = [twin EXCEPT !.ru = RUEval(Head(q), twin.ru, gm2, g).ru]

CPRUStep2 == CPRUBody /\ twin' = [twin EXCEPT !.cpru = CPRUOf(twin.ru), !.pc = "Passes"]

PassBegin2 == PassBeginBody /\ twin' = TwinStep(twin, <<>>, 0)

Schedule2 ==
    /\ pc = "Passes" /\ i >= 1 /\ i < problem.njobs
    /\ \E d \in [1..TournamentSize(Len(Eligible(schedule))) -> 0..(DrawGrid - 1)] :
         \E g \in GarbageIf(\/ PlacementLeavesGrid(schedule)
                            \/ /\ twin.pc = "Passes"
                               /\ PlacementLeavesGrid(twin.schedule)) :
            /\ ScheduleBody(d, g)
            /\ twin' = TwinStep(twin, d, g)

PassEnd2 == PassEndBody /\ twin' = TwinStep(twin, <<>>, 0)

Return2 == ReturnBody /\ twin' = TwinStep(twin, <<>>, 0)

\* the first invocation has ended in a pass; the second goes on with the draws
TwinAlone ==
    /\ pc \in {"Infeasible", "Crash"}
    /\ twin.pc = "Passes"
    /\ \E d \in [1..TournamentSize(0) -> 0..(DrawGrid - 1)] :
         \E g \in GarbageIf(twin.i >= 1 /\ twin.i < problem.njobs
                               /\ PlacementLeavesGrid(twin.schedule)) :
            twin' = TwinStep(twin, d, g)
    /\ UNCHANGED <<batch, problem, pc, q, ef, ls, ru, cpru, passVars, ret, oob, uninit>>

NextTwin ==
    \/ EFStep
    \/ EFDone
    \/ LSStep
    \/ LSDone2
    \/ RUStep2
    \/ RUDone
    \/ CPRUStep2
    \/ PassBegin2
    \/ Schedule2
    \/ PassEnd2
    \/ Return2
    \/ TwinAlone

SpecTwin == Init /\ [][NextTwin]_vars

\* ---- findInstancesAndSolveAll (src/src/Main.cc) --------------------------------
\* batch.npaths is paths.size(), batch.i the loop counter, batch.blocks the number
\* of result blocks written to the output file, batch.last the second line of the
\* last block, batch.percent the last progress figure printed (-1: none yet).
\* What the instance files hold is an input: whether a file opens, and what solve
\* returns for the Problem parsed from it.
BatchProblem == MkProblem(0, <<0, 5, 0>>, Chain3, << <<>>, <<>>, <<>> >>, Flat(5, 0))

\* lines 81-88: the .smt files found under the directory, sorted
InitBatch ==
    /\ problem = BatchProblem
    /\ pc = "EF"
    /\ q = <<0>>
    /\ ef = [j \in Jobs |-> 0]
    /\ ls = <<>>
    /\ ru = <<>>
    /\ cpru = <<>>
    /\ available = <<>>
    /\ schedule = <<>>
    /\ bestMakespan = INT32_MAX \div 2
    /\ out = Unwritten
    /\ pass = 0
    /\ i = 0
    /\ selected = <<>>
    /\ winner = -1
    /\ finish = -1
    /\ passLog = <<>>
    /\ ret = "running"
    /\ oob = FALSE
    /\ uninit = FALSE
    /\ twin = TwinInit
    /\ \E n \in 0..MaxFiles :
         batch = [ pc |-> "Loop", npaths |-> n, i |-> 0, blocks |-> 0, last |-> "none",
                   percent |-> -1 ]

solveVars == <<problem, pc, q, ef, ls, ru, cpru, available, schedule, bestMakespan, out,
               pass, i, selected, winner, finish, ret, oob, uninit, passLog, twin>>

\* line 112: paths.size()/100
ProgressDivisor(npaths) == npaths \div PERCENT

\* line 112 with a non-zero divisor: the figure printed after iteration x, if any
ProgressFigure(x, d, old) == IF x % d = 0 THEN x \div d ELSE old

\* lines 90-111: open and parse the file, solve, write the result block
BatchIteration ==
    /\ batch.pc = "Loop"
    /\ batch.i < batch.npaths
    /\ \E opens \in BOOLEAN : \E outcome \in {"Found", "NoSolution", "Crash"} :
         batch' = IF ~opens THEN [batch EXCEPT !.pc = "Exit"]
                  ELSE IF outcome = "Crash" THEN [batch EXCEPT !.pc = "SolveCrash"]
                  ELSE [batch EXCEPT !.pc = "Progress",
                                     !.blocks = batch.blocks + 1,
                                     !.last = IF outcome = "Found" THEN "makespan"
                                              ELSE "nosolution"]
    /\ UNCHANGED solveVars

\* line 112 and the i++ of line 89.  With a divisor of 0 the remainder and the
\* quotient are undefined: the process is stopped by the division (Trap), or the
\* division yields 0 and the remainder the dividend.
BatchProgress ==
    /\ batch.pc = "Progress"
    /\ LET d == ProgressDivisor(batch.npaths)
       IN IF d = 0
          THEN \/ batch' = [batch EXCEPT !.pc = "Trap"]
               \/ batch' = [batch EXCEPT !.pc = "Loop", !.i = batch.i + 1,
                                         !.percent = IF batch.i = 0 THEN 0
                                                     ELSE batch.percent]
          ELSE batch' = [batch EXCEPT !.pc = "Loop", !.i = batch.i + 1,
                                      !.percent = ProgressFigure(batch.i, d, batch.percent)]
    /\ UNCHANGED solveVars

\* line 89: i < (int)paths.size() is false
BatchEnd ==
    /\ batch.pc = "Loop"
    /\ batch.i >= batch.npaths
    /\ batch' = [batch EXCEPT !.pc = "End"]
    /\ UNCHANGED solveVars

NextBatch ==
    \/ BatchIteration
    \/ BatchProgress
    \/ BatchEnd

SpecBatch == InitBatch /\ [][NextBatch]_vars

\* ---- properties --------------------------------------------------------------
Returned == pc \in {"Done", "Infeasible"}

\* the demand on resource k at time t of the activities running then under the
\* finish times o
Load(o, k, t) ==
    SumFn([j \in Jobs |-> IF o[j] - problem.durations[j] <= t /\ t < o[j]
                          THEN problem.requests[j][k][t - (o[j] - problem.durations[j])]
                          ELSE 0], Jobs)

\* C1: whenever solve returns Found, for every resource k and every time t of the
\* horizon the requests of the activities running at t under out sum to at most
\* capacities[k][t].
C1_ResourceFeasible ==
    ret = "Found" =>
        \A k \in 0..(problem.nresources - 1) : \A t \in 0..(problem.horizon - 1) :
            Load(out, k, t) <= problem.capacities[k][t]

\* Found, and at some time two activities that could not both run there were
\* kept apart: the second was moved past the first
C1_Witness ==
    /\ ret = "Found"
    /\ problem.nresources > 0
    /\ \E j \in Jobs : \E p \in Jobs :
         /\ j # p
         /\ PredSet(j) = PredSet(p)
         /\ problem.durations[j] > 0
         /\ out[j] - problem.durations[j] = out[p]
         /\ problem.requests[j][0][0] + problem.requests[p][0][problem.durations[p] - 1]
               > problem.capacities[0][out[p] - 1]

\* C2: whenever solve returns Found, every activity starts no earlier than each of
\* its predecessors finishes: out[j] - durations[j] >= out[p].
C2_Precedence ==
    ret = "Found" =>
        \A j \in Jobs : \A p \in PredSet(j) : out[j] - problem.durations[j] >= out[p]

\* Found for an activity with two predecessors that finish at different times
C2_Witness ==
    /\ ret = "Found"
    /\ \E j \in Jobs : \E p1 \in PredSet(j) : \E p2 \in PredSet(j) :
         /\ out[p1] < out[p2]
         /\ out[j] - problem.durations[j] = out[p2]

\* some completed pass has a makespan within the horizon
SomePassSucceeded == \E x \in 1..Len(passLog) : passLog[x][Sink] <= problem.horizon

\* C3 as stated: solve returns Found if and only if at least one pass produced a
\* complete schedule with makespan <= horizon.
C3_Original == Returned => (ret = "Found" <=> SomePassSucceeded)

\* C3 as amended: solve returns Found if and only if every one of the NPASSES
\* passes produced a complete schedule, each with makespan <= horizon.
C3_Amended ==
    Returned => (ret = "Found" <=> /\ Len(passLog) = NPASSES
                                   /\ \A x \in 1..Len(passLog) :
                                        passLog[x][Sink] <= problem.horizon)

\* NoSolution although a pass had completed a schedule within the horizon
C3_Witness == Returned /\ ret = "NoSolution" /\ SomePassSucceeded

\* C4: once a placement has moved finish past the horizon the call is over with
\* NoSolution: nothing more happens, the passes still to run are not run, also
\* when an earlier pass had completed a schedule.
C4_AbortEndsCall ==
    finish > problem.horizon =>
        /\ pc = "Infeasible"
        /\ ret = "NoSolution"
        /\ pass < NPASSES
        /\ Len(passLog) = pass
        /\ ~ENABLED Next

\* an abort in a later pass, after a pass that had completed within the horizon
C4_Witness ==
    /\ finish > problem.horizon
    /\ pass >= 1
    /\ bestMakespan <= problem.horizon
    /\ out # Unwritten

PhaseOrder ==
    { <<"EF", "EF">>, <<"EF", "LS">>, <<"EF", "Infeasible">>,
      <<"LS", "LS">>, <<"LS", "RU">>, <<"LS", "Infeasible">>,
      <<"RU", "RU">>, <<"RU", "CPRU">>, <<"CPRU", "Passes">>,
      <<"Passes", "Passes">>, <<"Passes", "Done">>, <<"Passes", "Infeasible">>,
      <<"Passes", "Crash">> }

Follows(a, b) == \E x \in PhaseOrder : x[1] = a /\ x[2] = b

\* the call ended during preprocessing
PreprocessingAbort == pc = "Infeasible" /\ cpru = <<>>

\* C5: a value outside the horizon (ef[j] > horizon, ls[j] < 0) never survives its
\* pass: the call ends Infeasible with NoSolution, no pass run and out unwritten;
\* and the phases follow one another only as EF, LS, RU, CPRU, Passes.
C5_PreprocessingInfeasible ==
    /\ [](pc \notin {"EF", "Infeasible"} => \A j \in Jobs : ef[j] <= problem.horizon)
    /\ [](pc \notin {"EF", "LS", "Infeasible"} => \A j \in Jobs : ls[j] >= 0)
    /\ [](PreprocessingAbort =>
            /\ ret = "NoSolution"
            /\ out = Unwritten
            /\ schedule = <<>>
            /\ passLog = <<>>
            /\ pass = 0
            /\ \/ ls = <<>> /\ \E j \in Jobs : ef[j] > problem.horizon
               \/ ls # <<>> /\ ru = <<>> /\ \E j \in Jobs : ls[j] < 0)
    /\ [][Follows(pc, pc')]_vars

\* the earliest-finish pass ended the call
C5_Witness == PreprocessingAbort /\ \E j \in Jobs : ef[j] > problem.horizon

\* C6: in any Found result out[0] = 0 and out[n_jobs-1] <= horizon.
C6_SourceAndSink == ret = "Found" => out[0] = 0 /\ out[Sink] <= problem.horizon

\* Found with the sink exactly at the horizon, after an activity that was delayed
C6_Witness ==
    /\ ret = "Found"
    /\ out[Sink] = problem.horizon
    /\ \E j \in Jobs : out[j] > ef[j]

MinMakespan == CHOOSE m \in {passLog[x][Sink] : x \in 1..Len(passLog)} :
                   \A x \in 1..Len(passLog) : m <= passLog[x][Sink]

FirstBest == CHOOSE x \in 1..Len(passLog) :
                 /\ passLog[x][Sink] = MinMakespan
                 /\ \A y \in 1..(x - 1) : passLog[y][Sink] # MinMakespan

\* C7: a Found result is the schedule of the earliest pass whose makespan is the
\* minimum over all passes; out changes only at the end of a pass, to that pass's
\* schedule, and only when its makespan is strictly smaller than bestMakespan.
C7_BestRetained ==
    /\ [](ret = "Found" => out = passLog[FirstBest] /\ out[Sink] = MinMakespan)
    /\ [][out' # out => /\ pc = "Passes" /\ i = problem.njobs
                        /\ schedule[Sink] < bestMakespan
                        /\ out' = schedule
                        /\ bestMakespan' = schedule[Sink]]_vars

\* Found after two passes with the same makespan and different schedules
C7_Witness ==
    /\ ret = "Found"
    /\ \E x \in 1..Len(passLog) : \E y \in 1..Len(passLog) :
         /\ x < y
         /\ passLog[x][Sink] = passLog[y][Sink]
         /\ passLog[x] # passLog[y]
         /\ passLog[x][Sink] = MinMakespan

\* C8: bestMakespan never increases.
C8_BestNonIncreasing == [][bestMakespan' <= bestMakespan]_vars

\* a pass has ended with a makespan larger than the one retained
C8_Witness ==
    /\ Len(passLog) >= 2
    /\ passLog[Len(passLog)][Sink] > bestMakespan

RECURSIVE LongestPath(_)
LongestPath(j) ==
    IF PredSet(j) = {} THEN problem.durations[j]
    ELSE problem.durations[j]
         + (CHOOSE m \in {LongestPath(p) : p \in PredSet(j)} :
               \A p \in PredSet(j) : LongestPath(p) <= m)

\* C10: without resources, and with the longest path to the sink within the
\* horizon, the call can only end Found, with out[j] the longest path to j.
C10_LongestPath ==
    (/\ problem.nresources = 0
     /\ LongestPath(Sink) <= problem.horizon
     /\ pc \in {"Done", "Infeasible", "Crash"}) =>
        /\ ret = "Found"
        /\ \A j \in Jobs : out[j] = LongestPath(j)

\* Found without resources where two paths of different length meet
C10_Witness ==
    /\ problem.nresources = 0
    /\ ret = "Found"
    /\ \E j \in Jobs : \E p1 \in PredSet(j) : \E p2 \in PredSet(j) :
         LongestPath(p1) < LongestPath(p2)

\* C11: in any Found result the sink finishes when the last of its predecessors
\* finishes, and no activity finishes after the sink.
C11_SinkIsCompletion ==
    ret = "Found" =>
        /\ \E p \in PredSet(Sink) : out[Sink] = out[p]
        /\ \A p \in PredSet(Sink) : out[p] <= out[Sink]
        /\ \A j \in Jobs : out[j] <= out[Sink]

\* Found where the predecessors of the sink finish at different times and the
\* last of them was delayed by a resource
C11_Witness ==
    /\ ret = "Found"
    /\ \E p1 \in PredSet(Sink) : \E p2 \in PredSet(Sink) : out[p1] < out[p2]
    /\ out[Sink] > ef[Sink]

\* the requests of job fit the grid when it finishes at f (f within the horizon)
Fits(job, f, grid) ==
    \A k \in 0..(problem.nresources - 1) : \A t \in 0..(problem.durations[job] - 1) :
        /\ InHorizon(f - problem.durations[job] + t)
        /\ problem.requests[job][k][t] <= grid[k][f - problem.durations[job] + t]

\* an iteration of the scheduling loop is about to run
InIteration == pc = "Passes" /\ i >= 1 /\ i < problem.njobs

\* C12: a step that commits a winner gives it the smallest finish time
\* f >= finish0 (the maximum over its predecessors p of schedule[p] +
\* durations[winner]) at which its requests fit the remaining availabilities.
C12_EarliestPlacement ==
    [][(InIteration /\ i' = i + 1) =>
          LET finish0 == Finish0(schedule, winner', 1, -1)
          IN /\ schedule' = [schedule EXCEPT ![winner'] = finish']
             /\ finish' >= finish0
             /\ Fits(winner', finish', available)
             /\ \A f \in finish0..(finish' - 1) : ~Fits(winner', f, available)]_vars

\* the winner was committed later than its predecessors alone would allow
C12_Witness ==
    /\ pc = "Passes"
    /\ i >= 2
    /\ winner >= 1
    /\ schedule[winner] = finish
    /\ finish > Finish0(schedule, winner, 1, -1)
    /\ problem.durations[winner] > 0

\* the earliest-finish pass has run to its end
EFCompleted == ls # <<>>

\* f is a finish time for j that respects the final ef of its predecessors and
\* fits the capacities
EFAdmissible(j, f) ==
    /\ \A p \in PredSet(j) : f >= ef[p] + problem.durations[j]
    /\ f >= problem.durations[j]
    /\ Fits(j, f, problem.capacities)

\* C13: after an earliest-finish pass that did not abort, ef[0] = 0 and every
\* other ef[j] is the smallest finish time that is at least ef[p] + durations[j]
\* for every predecessor p and at which the requests of j fit the capacities.
C13_EarliestFinish ==
    EFCompleted =>
        /\ ef[0] = 0
        /\ \A j \in Jobs \ {0} :
             /\ EFAdmissible(j, ef[j])
             /\ \A f \in 0..(ef[j] - 1) : ~EFAdmissible(j, f)

\* an activity reached over two paths of different length, and an activity that
\* the capacities moved past its predecessors' bound
C13_Witness ==
    /\ EFCompleted
    /\ \E j \in Jobs : \E p1 \in PredSet(j) : \E p2 \in PredSet(j) : ef[p1] < ef[p2]
    /\ \E j \in Jobs \ {0} : \A p \in PredSet(j) : ef[j] > ef[p] + problem.durations[j]

C15_AvailableIsRemainder ==
    (pc = "Passes" /\ i >= 1) =>
        /\ \A k \in 0..(problem.nresources - 1) : \A t \in 0..(problem.horizon - 1) :
             /\ available[k][t] = problem.capacities[k][t] - Load(schedule, k, t)
             /\ available[k][t] >= 0
        /\ (i = 1 => available = problem.capacities)

\* a later pass has committed an activity with requests after an earlier pass
\* had used the same periods
C15_Witness ==
    /\ pc = "Passes"
    /\ pass >= 1
    /\ i >= 2
    /\ \E k \in 0..(problem.nresources - 1) : \E t \in 0..(problem.horizon - 1) :
         /\ available[k][t] < problem.capacities[k][t]
         /\ Load(passLog[pass], k, t) > 0

\* the positions of the samples whose cpru is >= the cpru of every sample
TopSamples(sel) ==
    {x \in 1..Len(sel) : \A y \in 1..Len(sel) : DGeq(cpru[sel[x]], cpru[sel[y]])}

\* C16: every iteration draws exactly Z = max(floor(0.5 * |eligible|), 2) samples,
\* each of them eligible, and the winner is the sample with the highest cpru, the
\* latest one in sample order when several tie.
C16_TournamentWinner ==
    [][InIteration =>
          LET elig == Eligible(schedule)
              top == TopSamples(selected')
          IN /\ Len(selected') = Max2(Len(elig) \div 2, 2)
             /\ \A x \in 1..Len(selected') : InSeq(selected'[x], elig)
             /\ top # {}
             /\ \E x \in top : /\ winner' = selected'[x]
                                /\ \A y \in top : y <= x]_vars

\* the latest-start pass has run to its end
LSCompleted == ru # <<>>

\* C17: when preprocessing does not abort, ef[j] >= durations[j] and
\* ls[j] + durations[j] <= horizon for every activity j after the EF and LS passes.
C17_PreprocessingBounds ==
    LSCompleted =>
        \A j \in Jobs : /\ ef[j] >= problem.durations[j]
                        /\ ls[j] + problem.durations[j] <= problem.horizon

\* both passes ended, and the capacities moved some activity off the bounds its
\* neighbours give it, in each direction
C17_Witness ==
    /\ LSCompleted
    /\ \E j \in Jobs \ {0} : \A p \in PredSet(j) : ef[j] > ef[p] + problem.durations[j]
    /\ \E j \in Jobs \ {Sink} : \A x \in SuccSet(j) : ls[j] < ls[x] - problem.durations[j]

\* the ru entries the loop of line 157 reads for job
RUReads(job) == {RUReadIndex(job, x) : x \in 0..(problem.nsuccessors[job] - 1)}

\* C18: the evaluation of ru[job] reads the ru entries of exactly the successors
\* of job, each written before; no ru entry is read before it has been written.
C18_ReadsSuccessors ==
    /\ (pc = "RU" /\ q # <<>>) =>
          /\ RUReads(Head(q)) = SuccSet(Head(q))
          /\ \A j \in RUReads(Head(q)) : j = Head(q) \/ ru[j] # Uninit
    /\ ~uninit

\* the resource-utilisation pass has run to its end
RUCompleted == pc \notin {"EF", "LS", "RU"} /\ ru # <<>>

\* C19: after the resource-utilisation pass every ru[j] is finite and >= 0.
C19_RUFiniteNonNegative ==
    RUCompleted => \A j \in Jobs : ru[j][1] = "fin" /\ ru[j][2] >= 0

\* C20: the progress computation of a batch run never has a divisor of 0,
\* whatever the number of files, and a run that reaches the end of the loop has
\* written one result block per file.
C20_ProgressDivisorNonZero ==
    /\ batch.pc = "Progress" => ProgressDivisor(batch.npaths) # 0
    /\ batch.pc # "Trap"
    /\ batch.pc = "End" => batch.blocks = batch.npaths

\* C21: every read or write of capacities[k][.] and available[k][.] uses a time
\* index in [0, horizon): in the EF and LS feasibility checks, in the RU
\* availability window and in the placement and commit of the passes.
C21_IndicesInHorizon == ~oob

\* the increments one step makes to the finish or start time it advances
AdvanceSteps ==
    IF pc = "EF" /\ q # <<>> THEN ef'[Head(q)] - ef[Head(q)]
    ELSE IF pc = "LS" /\ q # <<>> THEN ls[Head(q)] - ls'[Head(q)]
    ELSE IF InIteration /\ winner' \in Jobs
         THEN finish' - Finish0(schedule, winner', 1, -1)
    ELSE 0

\* no feasibility advance makes more than horizon + 1 increments
AdvanceBounded == [][AdvanceSteps <= problem.horizon + 1]_vars

\* every behaviour of SpecLive stops: the queues empty and the passes end
EventuallyStops == <>Stopped

\* C22: solve terminates in Done or Infeasible: at every moment the call is in a
\* phase of the pipeline EF, LS, RU, CPRU, Passes, where it goes on, or it has
\* reached one of the two outcomes; it ends nowhere else.
C22_Terminates == pc \in {"EF", "LS", "RU", "CPRU", "Passes", "Done", "Infeasible"}

====
